---- MODULE Spec2Model ----
(***************************************************************************)
(* The field-array controller of vue-composable-form                       *)
(* (packages/core/src/composable/useFieldArray.ts).                        *)
(*                                                                         *)
(* JavaScript arrays are 0-based; the sequences below are 1-based, so the  *)
(* element the code calls data[i] is data[i + 1] here.  An optional        *)
(* argument is a sequence of length 0 (undefined) or 1.                    *)
(* A path `${name}.${index}` is the pair <<name, index>>.                  *)
(***************************************************************************)
EXTENDS Integers, Sequences, FiniteSets, TLC

(* ---------------------------- bounds ----------------------------------- *)
\* longest value-sequence / entry-list explored
MaxLen == 3
\* number of keys the allocator may issue in one run
MaxSeed == 3
\* longest initial value-sequence and longest argument of replace
MaxBulk == 2

\* the raw values of the array's elements
Values == {"a", "b"}
\* the name the array is registered under
ArrayName == "list"

Min(x, y) == IF x < y THEN x ELSE y
Max(x, y) == IF x > y THEN x ELSE y

\* all sequences over S of length 0..n
SeqsUpTo(S, n) == UNION {[1..k -> S] : k \in 0..n}

\* the index arguments handed to slice and splice on an array of length
\* len: every own index, the length, one past it, and their negatives
IndexArgs(len) == (0 - (len + 1))..(len + 1)

\* the index arguments handed to an `in` test on an array of length len:
\* every own index, a negative one and the length
GuardArgs(len) == (-1)..len

(* ------------------- JavaScript array primitives ----------------------- *)
\* `i in data` for an integer i and a dense array
HasIndex(data, i) == i \in 0..(Len(data) - 1)

\* relative index -> absolute position as Array.prototype.slice/splice do
Clamp(len, i) == IF i < 0 THEN Max(len + i, 0) ELSE Min(i, len)

\* data.slice(start)
SliceFrom(data, start) == SubSeq(data, Clamp(Len(data), start) + 1, Len(data))

\* data.slice(0, end)
SliceTo(data, end) == SubSeq(data, 1, Clamp(Len(data), end))

\* the array left by data.splice(start, deleteCount, ...items)
SpliceRest(data, start, deleteCount, items) ==
  LET s == Clamp(Len(data), start)
      d == Min(Max(deleteCount, 0), Len(data) - s)
  IN SubSeq(data, 1, s) \o items \o SubSeq(data, s + d + 1, Len(data))

\* the array returned by data.splice(start, deleteCount)
SpliceRemoved(data, start, deleteCount) ==
  LET s == Clamp(Len(data), start)
      d == Min(Max(deleteCount, 0), Len(data) - s)
  IN SubSeq(data, s + 1, s + d)

(* ------------------------ structural transforms ------------------------ *)
appendAt(data, value) == data \o <<value>>

prependAt(data, value) == <<value>> \o data

\* swapAt without the temporary: data[indexA] = data[indexB], and then
\* data[indexB] = data[indexA] reads the value just written
swapAt_noTemp(data, indexA, indexB) ==
  [data EXCEPT ![indexA + 1] = data[indexB + 1]]

\* both indices are own indices of data (the guard of swap)
swapAt(data, indexA, indexB) ==
  [data EXCEPT ![indexA + 1] = data[indexB + 1],
               ![indexB + 1] = data[indexA + 1]]

\* removeAt without the isUndefined test: splice(undefined, 1) starts at 0
removeAt_noUndefinedTest(data, index) ==
  SpliceRest(data, IF index = <<>> THEN 0 ELSE index[1], 1, <<>>)

\* index is <<>> when omitted
removeAt(data, index) ==
  IF index = <<>> THEN <<>> ELSE SpliceRest(data, index[1], 1, <<>>)

\* moveAt that corrects the target for the removal, inserting at to - 1
\* when to lies behind from
moveAt_adjusted(data, from, to, undef) ==
  LET removed == SpliceRemoved(data, from, 1)
      item == IF removed = <<>> THEN undef ELSE removed[1]
      target == IF to > from THEN to - 1 ELSE to
  IN SpliceRest(SpliceRest(data, from, 1, <<>>), target, 0, <<item>>)

\* moveAt that leaves the list alone when to is past its end
moveAt_noClamp(data, from, to, undef) ==
  LET removed == SpliceRemoved(data, from, 1)
      item == IF removed = <<>> THEN undef ELSE removed[1]
  IN IF to >= Len(data)
     THEN data
     ELSE SpliceRest(SpliceRest(data, from, 1, <<>>), to, 0, <<item>>)

\* undef is what `undefined` is for the elements of data
moveAt(data, from, to, undef) ==
  LET removed == SpliceRemoved(data, from, 1)
      item == IF removed = <<>> THEN undef ELSE removed[1]
  IN SpliceRest(SpliceRest(data, from, 1, <<>>), to, 0, <<item>>)

\* insertAt whose second slice starts one too far: the element at index is
\* overwritten
insertAt_overwrite(data, index, value) ==
  SliceTo(data, index) \o <<value>> \o SliceFrom(data, index + 1)

insertAt(data, index, value) ==
  SliceTo(data, index) \o <<value>> \o SliceFrom(data, index)

\* updateAt that splices the value in, clone.splice(index, 0, value), in
\* place of the assignment
updateAt_splice(data, index, value) == SpliceRest(data, index, 0, <<value>>)

\* index is an own index of data (the guard of update)
updateAt(data, index, value) == [data EXCEPT ![index + 1] = value]

(* ------------------------------ state ---------------------------------- *)
VARIABLES
  pc,       \* "setup": useFieldArray has not run its reset() yet;
            \* "ready": it has returned; "replaced": the store has replaced
            \* the value at the array's path and has yet to call the reset hook
  values,   \* getFieldValue(name).value, the store's value-sequence
  fields,   \* fields.value, the entry-list
  seed,     \* the key counter
  issued,   \* every entry createEntry has returned, in creation order
  op,       \* the recorded call: its name and arguments
  pre,      \* values, fields, seed, issued and pc as they were before it
  effects,  \* what the recorded call did, in order: store calls and
            \* assignments to the entry-list
  first     \* when the recorded call was followed by a second one: the
            \* first call and the state before it (op and pre then hold the
            \* second call)
\* op, pre and effects are history variables.  A run records at most one of
\* its calls, any one, and ends with it; the calls before it leave no
\* record.  Every transition of the program is the recorded call of some
\* run, so a property of "the state before a call, the call, the state
\* after it" is an invariant over the recorded states.  A recorded swap may
\* be followed by the same swap, and a recorded move(from, to) by
\* move(to, from); that second call is recorded too and ends the run.

vars == <<pc, values, fields, seed, issued, op, pre, effects, first>>

\* an argument list: idx the index arguments, val the value arguments
Call(name, idx, val) == [name |-> name, idx |-> idx, val |-> val]

Snapshot ==
  [values |-> values, fields |-> fields, seed |-> seed, issued |-> issued,
   pc |-> pc]

\* no call recorded
NoCall == Call("none", <<>>, <<>>)
NoSnapshot ==
  [values |-> <<>>, fields |-> <<>>, seed |-> 0, issued |-> <<>>,
   pc |-> "none"]
Unrecorded == op = NoCall
NoFirst == [op |-> NoCall, pre |-> NoSnapshot]

(* --------------------------- the form store ---------------------------- *)
\* setFieldArrayValue(name, value, method, args, shouldValidate): the value
\* at the array's path becomes value
StoreSetFieldArrayValue(vs, value) == value

\* setFieldValue(`${name}.${index}`, value): a point write at an own index
StoreSetFieldValue(vs, index, value) == [vs EXCEPT ![index + 1] = value]

\* the record of one setFieldArrayValue call; revalidate is the fifth
\* argument, TRUE when it is left out
ArrayCall(value, transform, argA, argB, revalidate) ==
  [fn |-> "setFieldArrayValue", name |-> ArrayName, value |-> value,
   transform |-> transform, argA |-> argA, argB |-> argB,
   revalidate |-> revalidate]

FieldCall(index, value) ==
  [fn |-> "setFieldValue", path |-> <<ArrayName, index>>, value |-> value]

\* an assignment to (or in-place push/unshift on) fields.value
Publish(fs) == [fn |-> "fields", list |-> fs]

(* ------------------------------ entries -------------------------------- *)
\* createEntry with `const key = seed`: the counter is never advanced
createEntry_keepSeed(value, s) ==
  [entry |-> [key |-> s, value |-> value], seed |-> s]

\* const key = seed++, and the entry closing over key and value
createEntry(value, s) ==
  [entry |-> [key |-> s, value |-> value], seed |-> s + 1]

\* a map whose counter restarts at 0 for every rebuilt list
mapCreateEntry_fromZero(vals, s) ==
  [entries |-> [i \in 1..Len(vals) |-> [key |-> i - 1, value |-> vals[i]]],
   seed |-> Len(vals)]

\* vals.map(createEntry)
RECURSIVE mapCreateEntry(_, _)
mapCreateEntry(vals, s) ==
  IF vals = <<>> THEN [entries |-> <<>>, seed |-> s]
  ELSE LET c == createEntry(Head(vals), s)
           r == mapCreateEntry(Tail(vals), c.seed)
       IN [entries |-> <<c.entry>> \o r.entries, seed |-> r.seed]

\* fs.findIndex((field) => field.key === key)
FindIndex(fs, key) ==
  IF \E i \in 1..Len(fs) : fs[i].key = key
  THEN (CHOOSE i \in 1..Len(fs) :
          /\ fs[i].key = key
          /\ \A j \in 1..(i - 1) : fs[j].key # key) - 1
  ELSE -1

\* an index fixed when the entry is created (the key of an entry of the
\* initial list is the position it was created at) instead of looked up
EntryIndex_creationPosition(e, fs) == IF e.key < Len(fs) THEN e.key ELSE -1

\* the entry's computed index, over the entry-list fs
EntryIndex(e, fs) == FindIndex(fs, e.key)

\* the getter of the entry's value, over entry-list fs and value-sequence vs
EntryValue(e, fs, vs) ==
  IF EntryIndex(e, fs) = -1 THEN e.value ELSE vs[EntryIndex(e, fs) + 1]

\* the entry's computed name
EntryName(e, fs) == <<ArrayName, EntryIndex(e, fs)>>

\* a setter without `if (index.value === -1) return`
EntrySetCalls_noStaleTest(e, v, fs) == <<FieldCall(EntryIndex(e, fs), v)>>

\* the setter of the entry's value: the store calls it makes
EntrySetCalls(e, v, fs) ==
  IF EntryIndex(e, fs) = -1 THEN <<>>
  ELSE <<FieldCall(EntryIndex(e, fs), v)>>

\* the setter of the entry's value: the value-sequence it leaves
EntrySetValues(e, v, fs, vs) ==
  IF EntryIndex(e, fs) = -1 THEN vs
  ELSE StoreSetFieldValue(vs, EntryIndex(e, fs), v)

\* `undefined` where a value, resp. an entry, is expected
UndefinedValue == "undefined"
UndefinedEntry == [key |-> -1, value |-> UndefinedValue]

(* ------------------- the store's index-keyed side tables --------------- *)
\* a side table (errors, touched, dirty) has one slot per element; a slot is
\* named here by the key of the entry it belongs to
SideTable(fs) == [i \in 1..Len(fs) |-> fs[i].key]

\* `undefined` where a slot is expected
UndefinedSlot == -1

\* an optional argument as the transform receives it
SlotArg(arg) == IF arg = <<>> THEN UndefinedSlot ELSE arg[1]

\* method(table, args.argA, args.argB) for the method and the arguments of
\* a setFieldArrayValue call: the table the store is left with (swapAt and
\* moveAt change the table they are given)
ApplyTransform(call, table) ==
  CASE call.transform = "appendAt" -> appendAt(table, SlotArg(call.argA))
    [] call.transform = "prependAt" -> prependAt(table, SlotArg(call.argA))
    [] call.transform = "removeAt" -> removeAt(table, call.argA)
    [] call.transform = "swapAt" ->
         swapAt(table, call.argA[1], call.argB[1])
    [] call.transform = "moveAt" ->
         moveAt(table, call.argA[1], call.argB[1], UndefinedSlot)
    [] call.transform = "insertAt" ->
         insertAt(table, call.argA[1], SlotArg(call.argB))
    [] call.transform = "updateAt" ->
         updateAt(table, call.argA[1], SlotArg(call.argB))
    [] call.transform = "identity" -> table

(* ------------------------------ actions -------------------------------- *)
\* the initial value at the array's path; nothing has been created yet
Init ==
  /\ pc = "setup"
  /\ values \in SeqsUpTo(Values, MaxBulk)
  /\ fields = <<>>
  /\ seed = 0
  /\ issued = <<>>
  /\ op = NoCall
  /\ pre = NoSnapshot
  /\ effects = <<>>
  /\ first = NoFirst

\* the call is the recorded one of this run, or it leaves no record; a call
\* that follows the recorded one is recorded as the second
Record(call, eff) ==
  IF Unrecorded
  THEN /\ UNCHANGED first
       /\ \/ /\ op' = call
             /\ pre' = Snapshot
             /\ effects' = eff
          \/ UNCHANGED <<op, pre, effects>>
  ELSE /\ first' = [op |-> op, pre |-> pre]
       /\ op' = call
       /\ pre' = Snapshot
       /\ effects' = eff

\* reset() that rebuilds only an empty entry-list
resetBody_onlyWhenEmpty(call) ==
  LET m == IF fields = <<>> THEN mapCreateEntry(values, seed)
           ELSE [entries |-> fields, seed |-> seed]
  IN /\ m.seed <= MaxSeed
     /\ fields' = m.entries
     /\ seed' = m.seed
     /\ issued' = IF fields = <<>> THEN issued \o m.entries ELSE issued
     /\ pc' = "ready"
     /\ UNCHANGED values
     /\ Record(call, <<Publish(m.entries)>>)

\* reset(): fields.value = values.value.map(createEntry)
resetBody(call) ==
  LET m == mapCreateEntry(values, seed)
  IN /\ m.seed <= MaxSeed
     /\ fields' = m.entries
     /\ seed' = m.seed
     /\ issued' = issued \o m.entries
     /\ pc' = "ready"
     /\ UNCHANGED values
     /\ Record(call, <<Publish(m.entries)>>)

\* the tail of useFieldArray: registerFieldArray(...); reset(); return
setup ==
  /\ Unrecorded
  /\ pc = "setup"
  /\ resetBody(Call("setup", <<>>, <<>>))

\* the reset hook, called by the store
reset ==
  /\ Unrecorded
  /\ pc \in {"ready", "replaced"}
  /\ resetBody(Call("reset", <<>>, <<>>))

\* the store replaces the value at the array's path (setValues, form
\* reset); it calls the registered reset hook next
storeReplace ==
  /\ Unrecorded
  /\ pc = "ready"
  /\ \E vs \in SeqsUpTo(Values, MaxBulk) :
       /\ values' = vs
       /\ pc' = "replaced"
       /\ UNCHANGED <<fields, seed, issued>>
       /\ Record(Call("storeReplace", <<>>, vs), <<>>)

\* append that pushes the entry before it commits the values
append_pushFirst ==
  /\ Unrecorded
  /\ pc = "ready" /\ Len(values) < MaxLen /\ seed < MaxSeed
  /\ \E value \in Values :
       LET newValues == appendAt(values, value)
           c == createEntry(value, seed)
           newFields == fields \o <<c.entry>>
       IN /\ values' = StoreSetFieldArrayValue(values, newValues)
          /\ fields' = newFields
          /\ seed' = c.seed
          /\ issued' = issued \o <<c.entry>>
          /\ UNCHANGED pc
          /\ Record(Call("append", <<>>, <<value>>),
                    <<Publish(newFields),
                      ArrayCall(newValues, "appendAt", <<>>, <<>>, TRUE)>>)

append ==
  /\ Unrecorded
  /\ pc = "ready" /\ Len(values) < MaxLen /\ seed < MaxSeed
  /\ \E value \in Values :
       LET newValues == appendAt(values, value)
           c == createEntry(value, seed)
           newFields == fields \o <<c.entry>>
       IN /\ values' = StoreSetFieldArrayValue(values, newValues)
          /\ fields' = newFields
          /\ seed' = c.seed
          /\ issued' = issued \o <<c.entry>>
          /\ UNCHANGED pc
          /\ Record(Call("append", <<>>, <<value>>),
                    <<ArrayCall(newValues, "appendAt", <<>>, <<>>, TRUE),
                      Publish(newFields)>>)

\* prepend that pushes the new entry instead of unshifting it
prepend_push ==
  /\ Unrecorded
  /\ pc = "ready" /\ Len(values) < MaxLen /\ seed < MaxSeed
  /\ \E value \in Values :
       LET newValues == prependAt(values, value)
           c == createEntry(value, seed)
           newFields == fields \o <<c.entry>>
       IN /\ values' = StoreSetFieldArrayValue(values, newValues)
          /\ fields' = newFields
          /\ seed' = c.seed
          /\ issued' = issued \o <<c.entry>>
          /\ UNCHANGED pc
          /\ Record(Call("prepend", <<>>, <<value>>),
                    <<ArrayCall(newValues, "prependAt", <<>>, <<>>, TRUE),
                      Publish(newFields)>>)

prepend ==
  /\ Unrecorded
  /\ pc = "ready" /\ Len(values) < MaxLen /\ seed < MaxSeed
  /\ \E value \in Values :
       LET newValues == prependAt(values, value)
           c == createEntry(value, seed)
           newFields == <<c.entry>> \o fields
       IN /\ values' = StoreSetFieldArrayValue(values, newValues)
          /\ fields' = newFields
          /\ seed' = c.seed
          /\ issued' = issued \o <<c.entry>>
          /\ UNCHANGED pc
          /\ Record(Call("prepend", <<>>, <<value>>),
                    <<ArrayCall(newValues, "prependAt", <<>>, <<>>, TRUE),
                      Publish(newFields)>>)

\* remove that drops the entry with fields.filter((_, i) => i !== index)
\* instead of removeAt: a negative index then removes a value and no entry
remove_filterFields ==
  /\ Unrecorded
  /\ pc = "ready"
  /\ \E index \in {<<>>} \cup {<<i>> : i \in IndexArgs(Len(values))} :
       LET cloneValues == removeAt(values, index)
           cloneField ==
             IF index = <<>> THEN <<>>
             ELSE IF HasIndex(fields, index[1])
                  THEN removeAt(fields, index) ELSE fields
       IN /\ values' = StoreSetFieldArrayValue(values, cloneValues)
          /\ fields' = cloneField
          /\ UNCHANGED <<seed, issued, pc>>
          /\ Record(Call("remove", index, <<>>),
                    <<ArrayCall(cloneValues, "removeAt", index, <<>>, TRUE),
                      Publish(cloneField)>>)

\* remove(index) and remove()
remove ==
  /\ Unrecorded
  /\ pc = "ready"
  /\ \E index \in {<<>>} \cup {<<i>> : i \in IndexArgs(Len(values))} :
       LET cloneValues == removeAt(values, index)
           cloneField == removeAt(fields, index)
       IN /\ values' = StoreSetFieldArrayValue(values, cloneValues)
          /\ fields' = cloneField
          /\ UNCHANGED <<seed, issued, pc>>
          /\ Record(Call("remove", index, <<>>),
                    <<ArrayCall(cloneValues, "removeAt", index, <<>>, TRUE),
                      Publish(cloneField)>>)

\* a swap that hands indexA to the store as both arguments
swapCall_sameArgs(indexA, indexB) ==
  IF ~HasIndex(values, indexA) \/ ~HasIndex(values, indexB)
  THEN /\ UNCHANGED <<values, fields, seed, issued, pc>>
       /\ Record(Call("swap", <<indexA, indexB>>, <<>>), <<>>)
  ELSE LET cloneValues == swapAt(values, indexA, indexB)
           cloneField == swapAt(fields, indexA, indexB)
       IN /\ values' = StoreSetFieldArrayValue(values, cloneValues)
          /\ fields' = cloneField
          /\ UNCHANGED <<seed, issued, pc>>
          /\ Record(Call("swap", <<indexA, indexB>>, <<>>),
                    <<ArrayCall(cloneValues, "swapAt", <<indexA>>,
                                <<indexA>>, FALSE),
                      Publish(cloneField)>>)

\* the body of swap
swapCall(indexA, indexB) ==
  IF ~HasIndex(values, indexA) \/ ~HasIndex(values, indexB)
  THEN /\ UNCHANGED <<values, fields, seed, issued, pc>>
       /\ Record(Call("swap", <<indexA, indexB>>, <<>>), <<>>)
  ELSE LET cloneValues == swapAt(values, indexA, indexB)
           cloneField == swapAt(fields, indexA, indexB)
       IN /\ values' = StoreSetFieldArrayValue(values, cloneValues)
          /\ fields' = cloneField
          /\ UNCHANGED <<seed, issued, pc>>
          /\ Record(Call("swap", <<indexA, indexB>>, <<>>),
                    <<ArrayCall(cloneValues, "swapAt", <<indexA>>,
                                <<indexB>>, FALSE),
                      Publish(cloneField)>>)

swap ==
  /\ Unrecorded
  /\ pc = "ready"
  /\ \E indexA, indexB \in GuardArgs(Len(values)) : swapCall(indexA, indexB)

\* the recorded swap(a, b) is called once more
swapAgain ==
  /\ first = NoFirst
  /\ op.name = "swap"
  /\ swapCall(op.idx[1], op.idx[2])

\* move without its guard on from
move_noGuard ==
  /\ Unrecorded
  /\ pc = "ready"
  /\ \E from \in GuardArgs(Len(values)), to \in IndexArgs(Len(values)) :
       LET cloneValues == moveAt(values, from, to, UndefinedValue)
           cloneField == moveAt(fields, from, to, UndefinedEntry)
       IN /\ values' = StoreSetFieldArrayValue(values, cloneValues)
          /\ fields' = cloneField
          /\ UNCHANGED <<seed, issued, pc>>
          /\ Record(Call("move", <<from, to>>, <<>>),
                    <<ArrayCall(cloneValues, "moveAt", <<from>>, <<to>>,
                                FALSE),
                      Publish(cloneField)>>)

\* a move that leaves the revalidate argument out
moveCall_revalidate(from, to) ==
  IF ~HasIndex(values, from)
  THEN /\ UNCHANGED <<values, fields, seed, issued, pc>>
       /\ Record(Call("move", <<from, to>>, <<>>), <<>>)
  ELSE LET cloneValues == moveAt(values, from, to, UndefinedValue)
           cloneField == moveAt(fields, from, to, UndefinedEntry)
       IN /\ values' = StoreSetFieldArrayValue(values, cloneValues)
          /\ fields' = cloneField
          /\ UNCHANGED <<seed, issued, pc>>
          /\ Record(Call("move", <<from, to>>, <<>>),
                    <<ArrayCall(cloneValues, "moveAt", <<from>>, <<to>>,
                                TRUE),
                      Publish(cloneField)>>)

\* the body of move
moveCall(from, to) ==
  IF ~HasIndex(values, from)
  THEN /\ UNCHANGED <<values, fields, seed, issued, pc>>
       /\ Record(Call("move", <<from, to>>, <<>>), <<>>)
  ELSE LET cloneValues == moveAt(values, from, to, UndefinedValue)
           cloneField == moveAt(fields, from, to, UndefinedEntry)
       IN /\ values' = StoreSetFieldArrayValue(values, cloneValues)
          /\ fields' = cloneField
          /\ UNCHANGED <<seed, issued, pc>>
          /\ Record(Call("move", <<from, to>>, <<>>),
                    <<ArrayCall(cloneValues, "moveAt", <<from>>, <<to>>,
                                FALSE),
                      Publish(cloneField)>>)

move ==
  /\ Unrecorded
  /\ pc = "ready"
  /\ \E from \in GuardArgs(Len(values)), to \in IndexArgs(Len(values)) :
       moveCall(from, to)

\* the recorded move(from, to) is followed by move(to, from)
moveBack ==
  /\ first = NoFirst
  /\ op.name = "move"
  /\ moveCall(op.idx[2], op.idx[1])

insert ==
  /\ Unrecorded
  /\ pc = "ready" /\ Len(values) < MaxLen /\ seed < MaxSeed
  /\ \E index \in IndexArgs(Len(values)), value \in Values :
       LET cloneValues == insertAt(values, index, value)
           c == createEntry(value, seed)
           cloneField == insertAt(fields, index, c.entry)
       IN /\ values' = StoreSetFieldArrayValue(values, cloneValues)
          /\ fields' = cloneField
          /\ seed' = c.seed
          /\ issued' = issued \o <<c.entry>>
          /\ UNCHANGED pc
          /\ Record(Call("insert", <<index>>, <<value>>),
                    <<ArrayCall(cloneValues, "insertAt", <<index>>, <<>>,
                                TRUE),
                      Publish(cloneField)>>)

\* the last statement, fields.value[index].value = value, runs the setter
\* of the entry at index
update ==
  /\ Unrecorded
  /\ pc = "ready"
  /\ \E index \in GuardArgs(Len(values)), value \in Values :
       IF ~HasIndex(values, index)
       THEN /\ UNCHANGED <<values, fields, seed, issued, pc>>
            /\ Record(Call("update", <<index>>, <<value>>), <<>>)
       ELSE LET cloneValue == updateAt(values, index, value)
                committed == StoreSetFieldArrayValue(values, cloneValue)
                e == fields[index + 1]
            IN /\ values' = EntrySetValues(e, value, fields, committed)
               /\ UNCHANGED <<fields, seed, issued, pc>>
               /\ Record(Call("update", <<index>>, <<value>>),
                         <<ArrayCall(cloneValue, "updateAt", <<index>>,
                                     <<>>, TRUE)>>
                         \o EntrySetCalls(e, value, fields))

\* replace that keeps the entry of every position that survives and creates
\* entries only for the positions beyond the old length
replace_reuseEntries ==
  /\ Unrecorded
  /\ pc = "ready"
  /\ \E vals \in SeqsUpTo(Values, MaxBulk) :
       LET cloneValues == vals
           kept == SubSeq(fields, 1, Min(Len(fields), Len(vals)))
           m == mapCreateEntry(SubSeq(vals, Len(kept) + 1, Len(vals)), seed)
       IN /\ m.seed <= MaxSeed
          /\ values' = StoreSetFieldArrayValue(values, cloneValues)
          /\ fields' = kept \o m.entries
          /\ seed' = m.seed
          /\ issued' = issued \o m.entries
          /\ UNCHANGED pc
          /\ Record(Call("replace", <<>>, vals),
                    <<ArrayCall(cloneValues, "identity", <<>>, <<>>, TRUE),
                      Publish(kept \o m.entries)>>)

replace ==
  /\ Unrecorded
  /\ pc = "ready"
  /\ \E vals \in SeqsUpTo(Values, MaxBulk) :
       LET cloneValues == vals
           m == mapCreateEntry(cloneValues, seed)
       IN /\ m.seed <= MaxSeed
          /\ values' = StoreSetFieldArrayValue(values, cloneValues)
          /\ fields' = m.entries
          /\ seed' = m.seed
          /\ issued' = issued \o m.entries
          /\ UNCHANGED pc
          /\ Record(Call("replace", <<>>, vals),
                    <<ArrayCall(cloneValues, "identity", <<>>, <<>>, TRUE),
                      Publish(m.entries)>>)

\* a consumer assigns entry.value = value on an entry it holds, current or
\* stale
entryWrite ==
  /\ Unrecorded
  /\ pc = "ready"
  /\ \E k \in 1..Len(issued), value \in Values :
       LET e == issued[k]
       IN /\ values' = EntrySetValues(e, value, fields, values)
          /\ UNCHANGED <<fields, seed, issued, pc>>
          /\ Record(Call("entryWrite", <<e.key>>, <<value>>),
                    EntrySetCalls(e, value, fields))

Next ==
  \/ setup
  \/ reset
  \/ storeReplace
  \/ append
  \/ prepend
  \/ remove
  \/ swap
  \/ swapAgain
  \/ move
  \/ moveBack
  \/ insert
  \/ update
  \/ replace
  \/ entryWrite

Spec == Init /\ [][Next]_vars

(* ------------------------- vocabulary of the claims -------------------- *)
\* the keys of the entries of a list
Keys(fs) == {fs[i].key : i \in 1..Len(fs)}

\* i is a valid current index of a sequence
ValidIndex(s, i) == 0 <= i /\ i < Len(s)

\* s with the element at 0-based position i taken out
Without(s, i) ==
  [k \in 1..(Len(s) - 1) |-> IF k <= i THEN s[k] ELSE s[k + 1]]

\* s with x put at 0-based position i, the later elements one place right
WithInserted(s, i, x) ==
  [k \in 1..(Len(s) + 1) |->
     IF k <= i THEN s[k] ELSE IF k = i + 1 THEN x ELSE s[k - 1]]

\* the values the entries of fs were created with
Captured(fs) == [i \in 1..Len(fs) |-> fs[i].value]

C2_KeysUnique ==
  \A i, j \in 1..Len(fields) : i # j => fields[i].key # fields[j].key

\* an insert has made a three-entry list
C2_Witness == op.name = "insert" /\ Len(fields) = 3

\* C3: swap and move keep every entry and its key, keep the set of keys, and
\* keep the value read through each entry.
C3_ReorderKeepsIdentity ==
  op.name \in {"swap", "move"} =>
    /\ Len(fields) = Len(pre.fields)
    /\ Keys(fields) = Keys(pre.fields)
    /\ \A i \in 1..Len(pre.fields) :
         LET e == pre.fields[i]
         IN /\ \E j \in 1..Len(fields) : fields[j] = e
            /\ EntryValue(e, fields, values)
                 = EntryValue(e, pre.fields, pre.values)

\* a move has changed both the order of three entries and of their values
C3_Witness ==
  /\ op.name = "move" /\ Len(fields) = 3
  /\ fields # pre.fields /\ values # pre.values

\* C4: keys come from a counter that starts at 0 and only grows: the k-th
\* entry ever created has key k - 1, and a call's new entries have keys above
\* every key issued before the call, removed entries' keys included.
C4_KeysFromCounter ==
  /\ seed = Len(issued)
  /\ \A k \in 1..Len(issued) : issued[k].key = k - 1
  /\ \A i \in 1..Len(fields) : \E k \in 1..Len(issued) : issued[k] = fields[i]
  /\ ~Unrecorded =>
       /\ seed >= pre.seed
       /\ SubSeq(issued, 1, Len(pre.issued)) = pre.issued
       /\ \A k \in (Len(pre.issued) + 1)..Len(issued) :
            \A m \in 1..Len(pre.issued) : issued[k].key > pre.issued[m].key

\* an entry was created after another one had left the list
C4_Witness ==
  /\ op.name \in {"append", "prepend", "insert"}
  /\ Len(pre.fields) < pre.seed
  /\ seed = pre.seed + 1

\* C5: swap with an invalid index, move from an invalid index and update of
\* an invalid index make no store call and change nothing.
C5_InvalidIndexNoOp ==
  (\/ /\ op.name = "swap"
      /\ \/ ~ValidIndex(pre.values, op.idx[1])
         \/ ~ValidIndex(pre.values, op.idx[2])
   \/ /\ op.name \in {"move", "update"}
      /\ ~ValidIndex(pre.values, op.idx[1]))
  => /\ effects = <<>>
     /\ values = pre.values
     /\ fields = pre.fields
     /\ seed = pre.seed

\* swap(0, 3) on a three-element array
C5_Witness ==
  op.name = "swap" /\ op.idx = <<0, 3>> /\ Len(pre.values) = 3

\* C6: after replace(vals) the value-sequence is vals, there is one entry
\* per value, every key is new, and every entry of the old list is stale.
C6_ReplaceRebuilds ==
  op.name = "replace" =>
    /\ values = op.val
    /\ Len(fields) = Len(op.val)
    /\ \A i \in 1..Len(fields) : fields[i].key \notin Keys(pre.issued)
    /\ \A i \in 1..Len(pre.fields) : EntryIndex(pre.fields[i], fields) = -1

\* replace with two values of a list whose value had been changed
C6_Witness ==
  /\ op.name = "replace" /\ Len(op.val) = 2
  /\ Len(pre.fields) >= 1 /\ pre.values # Captured(pre.fields)

\* C7: reset() rebuilds the entry-list with one entry per current value, all
\* keys new and increasing with position, also when the store has replaced
\* the value-sequence; the reset of the setup yields keys 0..n-1.
C7_ResetRebuilds ==
  /\ op.name \in {"reset", "setup"} =>
       /\ values = pre.values
       /\ Len(fields) = Len(values)
       /\ \A i \in 1..Len(fields) : fields[i].key \notin Keys(pre.issued)
       /\ \A i, j \in 1..Len(fields) : i < j => fields[i].key < fields[j].key
  /\ op.name = "setup" =>
       \A i \in 1..Len(fields) : fields[i].key = i - 1

\* a reset after the store put two values where the list had another number
C7_Witness ==
  /\ op.name = "reset" /\ pre.pc = "replaced"
  /\ Len(pre.fields) # Len(pre.values) /\ Len(fields) = 2

\* C8: remove(i) with a valid i takes exactly position i out of both
\* sequences; remove() empties both.
C8_RemoveDeletes ==
  op.name = "remove" =>
    IF op.idx = <<>>
    THEN values = <<>> /\ fields = <<>>
    ELSE ValidIndex(pre.values, op.idx[1]) =>
           /\ values = Without(pre.values, op.idx[1])
           /\ fields = Without(pre.fields, op.idx[1])

\* remove(1) on a three-element array
C8_Witness ==
  op.name = "remove" /\ op.idx = <<1>> /\ Len(pre.values) = 3

\* C9: append puts the value last and a new entry, keyed by the next counter
\* value, last; prepend puts both first; the old entries keep keys and order.
C9_AppendPrepend ==
  /\ op.name = "append" =>
       /\ values = pre.values \o op.val
       /\ Len(fields) = Len(pre.fields) + 1
       /\ fields[Len(fields)].key = pre.seed
       /\ SubSeq(fields, 1, Len(pre.fields)) = pre.fields
  /\ op.name = "prepend" =>
       /\ values = op.val \o pre.values
       /\ Len(fields) = Len(pre.fields) + 1
       /\ fields[1].key = pre.seed
       /\ Tail(fields) = pre.fields

\* a prepend to a two-element array
C9_Witness == op.name = "prepend" /\ Len(pre.values) = 2

\* C10: insert(i, v) with 0 <= i <= length puts v at position i and a newly
\* keyed entry at position i, the later elements one place right; at
\* i = length the result is that of append(v).
C10_InsertPlaces ==
  (op.name = "insert" /\ 0 <= op.idx[1] /\ op.idx[1] <= Len(pre.values)) =>
    /\ values = WithInserted(pre.values, op.idx[1], op.val[1])
    /\ Len(fields) = Len(pre.fields) + 1
    /\ fields[op.idx[1] + 1].key = pre.seed
    /\ Without(fields, op.idx[1]) = pre.fields
    /\ op.idx[1] = Len(pre.values) =>
         /\ values = appendAt(pre.values, op.val[1])
         /\ SubSeq(fields, 1, Len(pre.fields)) = pre.fields

\* insert(1, v) into a two-element array
C10_Witness ==
  op.name = "insert" /\ op.idx = <<1>> /\ Len(pre.values) = 2

\* C11: update(i, v) with a valid i changes the value-sequence at position i
\* only, which becomes v, keeps its length, allocates no key and leaves every
\* entry where it was.
C11_UpdateValueOnly ==
  (op.name = "update" /\ ValidIndex(pre.values, op.idx[1])) =>
    /\ Len(values) = Len(pre.values)
    /\ \A k \in 1..Len(values) :
         values[k] = IF k = op.idx[1] + 1 THEN op.val[1] ELSE pre.values[k]
    /\ seed = pre.seed
    /\ issued = pre.issued
    /\ fields = pre.fields

\* update(1, v) on a three-element array whose element 1 was not v
C11_Witness ==
  /\ op.name = "update" /\ op.idx = <<1>> /\ Len(pre.values) = 3
  /\ values # pre.values

\* s with the elements at 0-based positions a and b exchanged
Exchanged(s, a, b) ==
  [k \in 1..Len(s) |->
     IF k = a + 1 THEN s[b + 1] ELSE IF k = b + 1 THEN s[a + 1] ELSE s[k]]

\* C12: swap(a, b) with valid a and b exchanges exactly positions a and b of
\* both sequences; the same swap called again restores both.
C12_SwapExchanges ==
  /\ (/\ op.name = "swap"
      /\ ValidIndex(pre.values, op.idx[1])
      /\ ValidIndex(pre.values, op.idx[2])) =>
       /\ values = Exchanged(pre.values, op.idx[1], op.idx[2])
       /\ fields = Exchanged(pre.fields, op.idx[1], op.idx[2])
  /\ (/\ first.op.name = "swap"
      /\ ValidIndex(first.pre.values, first.op.idx[1])
      /\ ValidIndex(first.pre.values, first.op.idx[2])) =>
       /\ op = first.op
       /\ values = first.pre.values
       /\ fields = first.pre.fields

\* swap(0, 2) was called twice on three elements, each call changing both
\* sequences
C12_Witness ==
  /\ first.op.name = "swap" /\ op.idx = <<0, 2>> /\ Len(values) = 3
  /\ values # pre.values /\ fields # pre.fields

\* C13: move(from, to) followed by move(to, from), both indices valid,
\* restores the order of the value-sequence and the value read through
\* every entry.
C13_MoveRoundTrip ==
  (/\ first.op.name = "move"
   /\ ValidIndex(first.pre.values, first.op.idx[1])
   /\ ValidIndex(first.pre.values, first.op.idx[2])) =>
    /\ op = Call("move", <<first.op.idx[2], first.op.idx[1]>>, <<>>)
    /\ values = first.pre.values
    /\ fields = first.pre.fields
    /\ \A i \in 1..Len(fields) :
         EntryValue(fields[i], fields, values)
           = EntryValue(fields[i], first.pre.fields, first.pre.values)

\* move(0, 2) then move(2, 0) on three elements, each call changing both
\* sequences
C13_Witness ==
  /\ first.op.name = "move" /\ first.op.idx = <<0, 2>> /\ Len(values) = 3
  /\ values # pre.values /\ fields # pre.fields

\* the entry is an element of the list
InList(e, fs) == \E i \in 1..Len(fs) : fs[i] = e

\* C14: an entry that has left the entry-list stays out of it; its index is
\* -1, its value reads as the value it was created with, and a write to its
\* value makes no store call and changes nothing.
C14_StaleHandle ==
  /\ \A k \in 1..Len(issued) :
       LET e == issued[k]
       IN ~InList(e, fields) =>
            /\ EntryIndex(e, fields) = -1
            /\ EntryValue(e, fields, values) = e.value
            /\ \A v \in Values :
                 /\ EntrySetCalls(e, v, fields) = <<>>
                 /\ EntrySetValues(e, v, fields, values) = values
  /\ ~Unrecorded =>
       \A k \in 1..Len(pre.issued) :
         ~InList(pre.issued[k], pre.fields) => ~InList(pre.issued[k], fields)
  /\ (/\ op.name = "entryWrite"
      /\ ~InList(pre.issued[op.idx[1] + 1], pre.fields)) =>
       /\ effects = <<>>
       /\ values = pre.values
       /\ fields = pre.fields

\* a value that no element holds was written to a stale entry of a
\* non-empty array
C14_Witness ==
  /\ op.name = "entryWrite"
  /\ ~InList(pre.issued[op.idx[1] + 1], pre.fields)
  /\ Len(pre.values) >= 1
  /\ \A k \in 1..Len(pre.values) : pre.values[k] # op.val[1]

\* C15: for an entry in the list, reading its value gives the element of the
\* value-sequence at the entry's current position, and writing it calls
\* setFieldValue with the path "<arrayName>.<current position>".
C15_LiveEntryTracksPosition ==
  /\ pc = "ready" =>
       \A i \in 1..Len(fields) :
         /\ EntryValue(fields[i], fields, values) = values[i]
         /\ \A v \in Values :
              EntrySetCalls(fields[i], v, fields)
                = <<[fn |-> "setFieldValue", path |-> <<ArrayName, i - 1>>,
                     value |-> v]>>
  /\ op.name = "entryWrite" =>
       \A i \in 1..Len(pre.fields) :
         pre.fields[i].key = op.idx[1] =>
           /\ effects = <<[fn |-> "setFieldValue",
                           path |-> <<ArrayName, i - 1>>,
                           value |-> op.val[1]]>>
           /\ values = [pre.values EXCEPT ![i] = op.val[1]]

\* a write through the first entry ever created, made at position 0, while
\* it is at position 2
C15_Witness ==
  /\ op.name = "entryWrite" /\ op.idx = <<0>>
  /\ Len(pre.fields) = 3 /\ pre.fields[3].key = 0

\* the calls that change the array
Mutators ==
  {"append", "prepend", "remove", "swap", "move", "insert", "update",
   "replace"}

\* C16: in a mutator call that takes effect the first thing done is the
\* setFieldArrayValue commit; the entry-list is changed at most once, after
\* the commit, to the list the call leaves, and the store then holds the
\* committed value-sequence.
C16_CommitBeforePublish ==
  (op.name \in Mutators /\ (effects # <<>> \/ fields # pre.fields)) =>
    /\ effects # <<>>
    /\ effects[1].fn = "setFieldArrayValue"
    /\ Cardinality({k \in 1..Len(effects) : effects[k].fn = "fields"}) <= 1
    /\ fields # pre.fields => \E k \in 1..Len(effects) : effects[k].fn = "fields"
    /\ \A k \in 1..Len(effects) :
         effects[k].fn = "fields" =>
           /\ k > 1
           /\ effects[k].list = fields
           /\ effects[1].value = values

\* an insert that committed a value-sequence and then published a list
C16_Witness ==
  /\ op.name = "insert" /\ Len(effects) = 2
  /\ effects[2].fn = "fields" /\ fields # pre.fields

\* C17 as claimed: for every committed edit, the transform and arguments
\* handed to setFieldArrayValue turn a side table with one slot per old
\* value into one with one slot per new value, the slot of every surviving
\* entry at the entry's new index.
C17_AsClaimed ==
  (op.name \in Mutators /\ effects # <<>>) =>
    LET t == ApplyTransform(effects[1], SideTable(pre.fields))
    IN /\ Len(t) = Len(values)
       /\ \A i \in 1..Len(fields) :
            InList(fields[i], pre.fields) => t[i] = fields[i].key

\* C17, amended: that holds for append, prepend, remove, swap, move and
\* insert; for update it holds of every slot but the one at the updated
\* index, which is reset to undefined; for replace the transform handed
\* over is the identity and leaves the table as it was, whatever the
\* number of new values.
C17_SideTableReplay ==
  (op.name \in Mutators /\ effects # <<>>) =>
    LET old == SideTable(pre.fields)
        t == ApplyTransform(effects[1], old)
    IN IF op.name = "replace"
       THEN t = old
       ELSE /\ Len(t) = Len(values)
            /\ \A i \in 1..Len(fields) :
                 IF op.name = "update" /\ i = op.idx[1] + 1
                 THEN t[i] = UndefinedSlot
                 ELSE InList(fields[i], pre.fields) => t[i] = fields[i].key

\* move(2, 0) on three entries: every slot changes its index
C17_Witness ==
  /\ op.name = "move" /\ op.idx = <<2, 0>> /\ Len(pre.fields) = 3
  /\ effects # <<>>

\* the setFieldArrayValue calls of the recorded call
ArrayCalls ==
  {k \in 1..Len(effects) : effects[k].fn = "setFieldArrayValue"}

\* C18: every commit of swap and of move passes revalidate = false; every
\* commit of append, prepend, remove, insert, update and replace leaves the
\* flag out, so that it has its default, true.
C18_RevalidateFlag ==
  op.name \in Mutators =>
    \A k \in ArrayCalls :
      effects[k].revalidate = (op.name \notin {"swap", "move"})

\* a move that committed a new order of three elements
C18_Witness ==
  /\ op.name = "move" /\ ArrayCalls # {} /\ Len(pre.values) = 3
  /\ effects[1].value # pre.values

\* C19: move(from, to) with from a valid index keeps the length and the
\* order of all other values and entries; the moved value and its entry end
\* at index to when 0 <= to < length and at the last index when
\* to >= length.
C19_MovePlaces ==
  (op.name = "move" /\ ValidIndex(pre.values, op.idx[1])) =>
    LET from == op.idx[1]
        to == op.idx[2]
        len == Len(pre.values)
        at == EntryIndex(pre.fields[from + 1], fields)
    IN /\ Len(values) = len /\ Len(fields) = len
       /\ ValidIndex(fields, at)
       /\ values[at + 1] = pre.values[from + 1]
       /\ Without(values, at) = Without(pre.values, from)
       /\ Without(fields, at) = Without(pre.fields, from)
       /\ (to >= 0 /\ to < len) => at = to
       /\ to >= len => at = len - 1

\* move(0, 4) on three elements: the target is past the end
C19_Witness ==
  /\ op.name = "move" /\ op.idx = <<0, 4>> /\ Len(pre.values) = 3
  /\ fields[3] = pre.fields[1]

====
